---- MODULE Spec2Model ----
(***************************************************************************)
(* BrickSense: three Streamlit scripts (bricksense.py, bricksense-v1.py,   *)
(* bricksens-x.py) that classify an uploaded photograph and localise the   *)
(* cracks by thresholding an interior activation map into contours.        *)
(*                                                                         *)
(* One run of a script is a sequence of steps (pc); a rerun starts the     *)
(* script again in the same process, with the cached model.                *)
(*                                                                         *)
(* Floating point values are exact rationals <<numerator, denominator>>;   *)
(* the IEEE result of 0/0 is the pair NaN.                                 *)
(***************************************************************************)
EXTENDS Integers, Sequences, FiniteSets, TLC

\* ------------------------------------------------------------------ bounds
\* side of the activation map of the tapped layer (28 in the real network)
GridN == 2
\* number of channels of the tapped layer (32 in the real network)
Channels == 2
\* activations are integers in -1 .. MaxAct
MaxAct == 2
\* the 224x224 raster is sampled on a MaskN x MaskN lattice of its pixels,
\* first and last row/column included
MaskN == 4
\* probabilities are multiples of 1/ProbUnits
ProbUnits == 1

\* --------------------------------------------------------- program constants
size == 224
thresh_x == 50
thresh_v1 == 127
thickness_x == 5
thickness_v1 == 2
thickness_divisor == 200
default_sensitivity == 11
slider_min_x == 1
slider_max_x == 12
slider_min_v1 == 6
slider_default_v1 == 10
slider_margin_v1 == 4
layer_bricksense == 8
\* number of layers of the network stored in the .keras file
NumLayers == 16

Variants == {"bricksense", "v1", "x"}

None == "None"

\* ------------------------------------------------------------- arithmetic
Max(a, b) == IF a >= b THEN a ELSE b
Min(a, b) == IF a <= b THEN a ELSE b
Abs(a) == IF a >= 0 THEN a ELSE 0 - a
CeilDiv(a, b) == (a + b - 1) \div b

\* Python round(): half to even, of the rational n/d (n >= 0, d > 0)
PyRound(n, d) ==
    LET q == n \div d
        r == n - q * d
    IN  IF 2 * r < d THEN q
        ELSE IF 2 * r > d THEN q + 1
        ELSE IF q % 2 = 0 THEN q ELSE q + 1

\* ------------------------------------------------------------ float values
NaN == <<0, 0>>
IsNaN(v) == v = NaN

\* a / b for floats a, b >= 0 held over a common denominator; 0/0 is NaN and
\* numpy reports it with a warning, not with an exception
Divide(a, b) ==
    IF b[1] = 0
    THEN IF a[1] = 0 THEN NaN ELSE <<1, 0>>
    ELSE <<a[1], b[1]>>

\* an array held by value: f with every element evaluated
array(f) == f @@ f

\* ------------------------------------------- the tapped layer's activation
ActVals == (0 - 1) .. MaxAct
Cells == (0 .. GridN - 1) \X (0 .. GridN - 1)

\* the same value in every channel at every position
Uniform(b) == [c \in Cells |-> [k \in 1 .. Channels |-> b]]
\* background b everywhere, except value h in channel 1 at position hot
Spot(b, h, hot) ==
    [c \in Cells |-> [k \in 1 .. Channels |-> IF k = 1 /\ c = hot THEN h ELSE b]]

\* positions of the spot: the first and the last cell
HotCells == {<<0, 0>>, <<GridN - 1, GridN - 1>>}

\* the outputs np.squeeze(layer_output) the network may produce
LayerOutputs ==
    {Uniform(b) : b \in ActVals}
    \cup {Spot(t[1], t[2], t[3]) :
            t \in {u \in ActVals \X ActVals \X HotCells : u[1] < u[2]}}

RECURSIVE ChannelSum(_, _)
ChannelSum(v, k) == IF k = 0 THEN 0 ELSE v[k] + ChannelSum(v, k - 1)

\* np.mean(layer_output, axis=-1)
np_mean(layer_output) ==
    array([c \in Cells |-> <<ChannelSum(layer_output[c], Channels), Channels>>])

\* the bug of leaving negative means in the map
np_maximum_unclamped(heat_map) == heat_map

\* np.maximum(heat_map, 0)
np_maximum(heat_map) ==
    array([c \in Cells |-> <<Max(heat_map[c][1], 0), heat_map[c][2]>>])

\* np.max(heat_map), the elements being over one denominator
np_max(heat_map) ==
    CHOOSE v \in {heat_map[c] : c \in Cells} :
        \A c \in Cells : heat_map[c][1] <= v[1]

\* heat_map /= np.max(heat_map)
normalize(heat_map) ==
    LET m == np_max(heat_map)
    IN  array([c \in Cells |-> Divide(heat_map[c], m)])

\* ---------------------------------------------- resize, threshold, contours
FloorDiv(a, b) == IF a >= 0 THEN a \div b ELSE 0 - ((b - 1 - a) \div b)

\* cv2.resize, INTER_LINEAR: the two source taps <<index, weight>> of
\* destination coordinate X on an axis of out pixels; weights are over 2*out
Taps(X, out) ==
    LET den == 2 * out
        fxN == (2 * X + 1) * GridN - out
        s0 == FloorDiv(fxN, den)
        s == IF s0 < 0 THEN 0 ELSE IF s0 >= GridN - 1 THEN GridN - 1 ELSE s0
        fr == IF s0 < 0 \/ s0 >= GridN - 1 THEN 0 ELSE fxN - s0 * den
    IN  <<<<s, den - fr>>, <<Min(s + 1, GridN - 1), fr>>>>

\* value of cv2.resize(heat_map, (outW, outH), INTER_LINEAR) at pixel (X, Y)
ResizeAt(heat_map, X, Y, outW, outH) ==
    IF \E c \in Cells : IsNaN(heat_map[c])
    THEN NaN
    ELSE LET tx == Taps(X, outW)
             ty == Taps(Y, outH)
             d == heat_map[<<0, 0>>][2]
             w(i, j) == tx[i][2] * ty[j][2] * heat_map[<<tx[i][1], ty[j][1]>>][1]
         IN  <<w(1, 1) + w(1, 2) + w(2, 1) + w(2, 2), 4 * outW * outH * d>>

\* results the undefined float -> uint8 conversion of NaN may give: 0 (the
\* low byte of the x86 cvttss2si and the AArch64 fcvtzu results) or 255 (the
\* low byte of the AVX-512 vcvttps2udq result)
NanCasts == {0, 255}

\* np.uint8(255 * v)
np_uint8(v, nanCast) ==
    IF IsNaN(v) THEN nanCast ELSE (255 * v[1]) \div v[2]

\* cv2.threshold(..., thresh, 255, cv2.THRESH_BINARY)
cv2_threshold(px, thresh) == IF px > thresh THEN 255 ELSE 0

\* lattice index -> pixel coordinate on an axis of out pixels
Idx == (0 .. MaskN - 1) \X (0 .. MaskN - 1)
Pix(i, out) == (i * (out - 1)) \div (MaskN - 1)

\* thresh_map on the lattice
ThreshMap(heat_map, thresh, outW, outH, nanCast) ==
    [p \in Idx |->
        cv2_threshold(
            np_uint8(ResizeAt(heat_map, Pix(p[1], outW), Pix(p[2], outH),
                              outW, outH), nanCast),
            thresh)]

Nbrs8(p) == {q \in Idx : q # p /\ Abs(q[1] - p[1]) <= 1 /\ Abs(q[2] - p[2]) <= 1}
Nbrs4(p) == {<<p[1] - 1, p[2]>>, <<p[1] + 1, p[2]>>,
             <<p[1], p[2] - 1>>, <<p[1], p[2] + 1>>}

RECURSIVE Grow(_, _)
Grow(S, F) ==
    LET T == S \cup {q \in F : \E p \in S : q \in Nbrs8(p)}
    IN  IF T = S THEN S ELSE Grow(T, F)

\* cv2.findContours(thresh_map, RETR_EXTERNAL, CHAIN_APPROX_SIMPLE): one
\* contour per 8-connected foreground region, given by the region's border
\* pixels (CHAIN_APPROX_SIMPLE keeps the end points of the border's straight
\* runs, the frame's four corners for an all-foreground mask)
findContours(thresh_map, outW, outH) ==
    LET F == {p \in Idx : thresh_map[p] # 0}
        regions == {Grow({p}, F) : p \in F}
        border(R) == {p \in R : \E q \in Nbrs4(p) : q \notin R}
    IN  {{<<Pix(p[1], outW), Pix(p[2], outH)>> : p \in border(R)} : R \in regions}

\* ------------------------------------------------------------------ images
\* uploads: the container Image.open recognises, the pixel size, whether the
\* opened object has a _getexif method ("noattr" if not), whether it returns
\* None or a dictionary or raises on a malformed EXIF segment, and the
\* dictionary's Orientation entry (0: no entry)
Sizes == {<<224, 224>>, <<800, 600>>}
Containers == {"JPEG", "PNG", "GIF"}
ExifKinds ==
    {<<"noattr", 0>>, <<"None", 0>>, <<"raises", 0>>}
    \cup {<<"dict", t>> : t \in {0, 1, 3, 5, 6, 8}}

\* EXIF is modelled for JPEG; PNG and GIF uploads have no _getexif
Files ==
    {[container |-> "JPEG", w |-> z[1], h |-> z[2], getexif |-> e[1],
      tag |-> e[2]] : z \in Sizes, e \in ExifKinds}
    \cup {[container |-> c, w |-> z[1], h |-> z[2], getexif |-> "noattr",
           tag |-> 0] : c \in Containers \ {"JPEG"}, z \in Sizes}

\* bytes that Image.open cannot identify
Garbage == [container |-> "TXT", w |-> 0, h |-> 0, getexif |-> "noattr", tag |-> 0]
NoFile == [container |-> None, w |-> 0, h |-> 0, getexif |-> "noattr", tag |-> 0]

NoImage ==
    [oid |-> 0, w |-> 0, h |-> 0, format |-> None, getexif |-> "noattr",
     tag |-> 0, angle |-> 0]

\* Image.open(file): object 1, carrying the file's format and metadata
Image_open(f) ==
    [oid |-> 1, w |-> f.w, h |-> f.h, format |-> f.container,
     getexif |-> f.getexif, tag |-> f.tag, angle |-> 0]

\* the bug of rotating without expand=True: the frame keeps its size
rotate_unexpanded(image, angle) ==
    [oid |-> image.oid + 1, w |-> image.w, h |-> image.h,
     format |-> None, getexif |-> "noattr", tag |-> 0,
     angle |-> (image.angle + angle) % 360]

\* image.rotate(angle, expand=True): a new Image object; an object that no
\* plugin opened has format None and no _getexif
rotate(image, angle) ==
    [oid |-> image.oid + 1,
     w |-> IF angle = 180 THEN image.w ELSE image.h,
     h |-> IF angle = 180 THEN image.h ELSE image.w,
     format |-> None, getexif |-> "noattr", tag |-> 0,
     angle |-> (image.angle + angle) % 360]

\* correct_orientation(image): the returned image and whether st.error was
\* called.  Without _getexif the x variant catches the AttributeError and the
\* others skip on hasattr; a missing Orientation entry reads as 1.
correct_orientation(image) ==
    IF image.getexif = "dict"
    THEN LET orientation == IF image.tag = 0 THEN 1 ELSE image.tag
         IN  IF orientation = 3 THEN rotate(image, 180)
             ELSE IF orientation = 6 THEN rotate(image, 270)
             ELSE IF orientation = 8 THEN rotate(image, 90)
             ELSE image
    ELSE image

\* image._getexif() raises an exception that is none of AttributeError,
\* KeyError, IndexError
getexif_raises(image) == image.getexif = "raises"

SupportedFormats == {"JPEG", "PNG", "BMP", "TIFF", "WEBP"}

\* image.format not in [...] raises ValueError
format_rejected(image) == image.format \notin SupportedFormats

\* --------------------------------------------------------------- geometry
\* ImageOps.contain(image, (size, size)): the aspect-preserving size
contain(w, h) ==
    IF w = h THEN <<size, size>>
    ELSE IF w > h THEN <<size, PyRound(h * size, w)>>
    ELSE <<PyRound(w * size, h), size>>

\* ImageOps.pad(image, (size, size)): <<x, y, width, height>> of the resized
\* picture inside the size x size result, centred
pad(w, h) ==
    LET r == contain(w, h)
    IN  IF r = <<size, size>> THEN <<0, 0, size, size>>
        ELSE IF r[1] # size THEN <<PyRound(size - r[1], 2), 0, r[1], r[2]>>
        ELSE <<0, PyRound(size - r[2], 2), r[1], r[2]>>

\* pairs <<v, W>> for which the double product v * (W / 224) is below the
\* integer v * W / 224 (W among the Sizes)
FloatShort == {<<84, 600>>, <<168, 600>>}

\* int(v * scale), scale the double quotient s[1] / s[2]
int_scaled(v, s) ==
    (v * s[1]) \div s[2]
    - (IF s[2] = size /\ <<v, s[1]>> \in FloatShort THEN 1 ELSE 0)

\* the bug of scaling each coordinate by the other axis' factor
scaled_point_swapped(p, scale_x, scale_y) ==
    <<int_scaled(p[1], scale_y), int_scaled(p[2], scale_x)>>

\* the bug of leaving the point in inference coordinates
scaled_point_unscaled(p, scale_x, scale_y) == p

\* [int(point[0][0] * scale_x), int(point[0][1] * scale_y)]
scaled_point(p, scale_x, scale_y) ==
    <<int_scaled(p[1], scale_x), int_scaled(p[2], scale_y)>>

\* scale_contours(contours, scale_x, scale_y)
scale_contours(contours, scale_x, scale_y) ==
    {{scaled_point(p, scale_x, scale_y) : p \in c} : c \in contours}

\* contour_thickness = max(2, int(max_dimension / 200))
contour_thickness(w, h) == Max(2, Max(w, h) \div thickness_divisor)

\* ------------------------------------------------------- import_and_predict
\* pred_vec: three probabilities in units of 1/ProbUnits, summing to 1
PredVecs ==
    {p \in (0 .. ProbUnits) \X (0 .. ProbUnits) \X (0 .. ProbUnits) :
        p[1] + p[2] + p[3] = ProbUnits}

\* the bug of taking the first index of the smallest element
np_argmin(p) ==
    CHOOSE i \in 0 .. 2 :
        /\ \A j \in 0 .. 2 : p[i + 1] <= p[j + 1]
        /\ \A j \in 0 .. 2 : j < i => p[i + 1] < p[j + 1]

\* np.argmax: the first index (from 0) of the largest element
np_argmax(p) ==
    CHOOSE i \in 0 .. 2 :
        /\ \A j \in 0 .. 2 : p[j + 1] <= p[i + 1]
        /\ \A j \in 0 .. 2 : j < i => p[j + 1] < p[i + 1]

\* what the network answers for one image and one tapped layer, and what
\* the uint8 conversion makes of a NaN heat map (0 where there is none)
Nets ==
    {[layer_output |-> lo, pred_vec |-> p, nanCast |-> nc] :
        lo \in LayerOutputs, p \in PredVecs, nc \in NanCasts}

threshold_of(v) == IF v = "x" THEN thresh_x ELSE thresh_v1
thickness_of(v) == IF v = "x" THEN thickness_x ELSE thickness_v1
\* number of values the caller unpacks the result into
expected_of(v) == IF v = "x" THEN 4 ELSE 2

\* channel-reduce, rectify, normalise of every layer output (evaluated once)
SaliencyOf ==
    [lo \in LayerOutputs |->
        LET rectified == np_maximum(np_mean(lo))
            heat_map == normalize(rectified)
        IN  [heat_max |-> np_max(rectified),
             heat_map |-> heat_map,
             isnan |-> \E c \in Cells : IsNaN(heat_map[c])]]

\* resize to size x size, threshold, contours of every layer output
ContoursOf ==
    [lo \in LayerOutputs |->
        [t \in {thresh_x, thresh_v1} |->
            [nc \in NanCasts |->
                findContours(
                    ThreshMap(SaliencyOf[lo].heat_map, t, size, size, nc),
                    size, size)]]]

\* the answers a call can meet: none matters without a model, and the
\* conversion of NaN matters only for a NaN heat map
NetsFor(mdl) ==
    IF mdl # "loaded"
    THEN {CHOOSE n \in Nets : TRUE}
    ELSE {n \in Nets :
            SaliencyOf[n.layer_output].isnan \/ n.nanCast = 0}

\* a newly allocated buffer holding a copy of buffer oid: an identity that
\* no Image object of the script has (those are 1 and 2)
copy(oid) == oid + 2

\* the bug of drawing on an array that shares the caller's pixels
draw_target_aliased(image_data) == image_data.oid

\* the array cv2.drawContours writes to: np.array(image_data) copies the
\* pixels and cv2.cvtColor allocates its result
draw_target(image_data) == copy(copy(image_data.oid))

\* the bug of a derived model whose second output follows the tapped layer
custom_model_predict_tapped(net, sensitivity) ==
    <<net.layer_output,
      IF sensitivity = default_sensitivity THEN net.pred_vec
      ELSE <<net.pred_vec[3], net.pred_vec[1], net.pred_vec[2]>>>>

\* custom_model.predict(img_reshape): the output of model.layers[sensitivity]
\* and the output of model.layers[-1], which no sensitivity changes
custom_model_predict(net, sensitivity) ==
    <<net.layer_output, net.pred_vec>>

\* the locals of a call of import_and_predict
NoLocals ==
    [called |-> FALSE, raised |-> FALSE, at |-> "none", sensitivity |-> 0,
     w |-> 0, h |-> 0,
     contour_thickness |-> 0, box |-> <<0, 0, 0, 0>>,
     layer_output |-> <<>>, heat_max |-> <<0, 1>>, heat_map |-> <<>>,
     nan_cast |-> 0, thresholded |-> FALSE, contours |-> {},
     scale_x |-> <<1, 1>>, scale_y |-> <<1, 1>>, scaled_contours |-> {},
     drew |-> FALSE, drawn |-> {}, draw_thickness |-> 0, wrote |-> {},
     pred_vec |-> <<>>, nret |-> 0]

\* import_and_predict(image_data, model, sensitivity) of variant v; net is
\* what custom_model.predict returns
import_and_predict(v, image_data, mdl, sensitivity, net) ==
    LET W == image_data.w
        H == image_data.h
        entry ==
            [NoLocals EXCEPT
                !.called = TRUE, !.sensitivity = sensitivity, !.w = W, !.h = H,
                !.contour_thickness =
                    IF v = "x" THEN contour_thickness(W, H) ELSE 0,
                !.box = IF v = "x" THEN pad(W, H) ELSE <<0, 0, size, size>>]
    IN
    IF mdl # "loaded"
    THEN \* model.inputs on None: AttributeError, caught; return None, None
         [entry EXCEPT !.raised = TRUE, !.at = "model", !.nret = 2]
    ELSE
    LET out == custom_model_predict(net, sensitivity)
        sal == SaliencyOf[out[1]]
        saliency ==
            [entry EXCEPT
                !.layer_output = out[1],
                !.pred_vec = out[2],
                !.heat_max = sal.heat_max,
                !.heat_map = sal.heat_map,
                !.nan_cast = IF sal.isnan THEN net.nanCast ELSE 0]
    IN
    IF v = "bricksense"
    THEN \* the heat map is resized to original_size and blended with the
         \* 224x224 resized original: cv2.addWeighted raises on unequal sizes
         IF <<W, H>> # <<size, size>>
         THEN [saliency EXCEPT !.raised = TRUE, !.at = "addWeighted", !.nret = 2]
         ELSE \* original_size is (size, size) here
              LET contours ==
                      ContoursOf[out[1]][thresh_v1][net.nanCast]
              IN  [saliency EXCEPT
                      !.at = "return", !.thresholded = TRUE,
                      !.contours = contours,
                      !.drew = TRUE, !.drawn = contours,
                      !.wrote = {draw_target(image_data)},
                      !.draw_thickness = thickness_v1, !.nret = 2]
    ELSE LET contours ==
                 ContoursOf[out[1]][threshold_of(v)][net.nanCast]
             \* original_width / size[0]; in the x variant the divisor is
             \* image_resized.size[0], the width of the padded image, size
             scale_x == <<W, size>>
             scale_y == <<H, size>>
             scaled_contours == scale_contours(contours, scale_x, scale_y)
         IN  [saliency EXCEPT
                 !.at = "return", !.thresholded = TRUE,
                 !.contours = contours,
                 !.scale_x = scale_x, !.scale_y = scale_y,
                 !.scaled_contours = scaled_contours,
                 !.drew = TRUE, !.drawn = scaled_contours,
                 !.wrote = {draw_target(image_data)},
                 !.draw_thickness = thickness_of(v),
                 !.nret = expected_of(v)]

\* the first value of the returned tuple: pred_vec, or None (<<>>)
returned_predictions(locals) ==
    IF locals.raised THEN <<>> ELSE locals.pred_vec

\* ---------------------------------------------------------------- the script
VARIABLES
    variant,      \* which script runs
    model,        \* st.cache_resource of load_model: "unloaded", "loaded", "None"
    loads,        \* executions of load_model's body in this process
    pc,           \* position of the run in the script
    file,         \* what st.file_uploader returned
    image,        \* the script's image variable
    layer,        \* the slider's value (0: not read)
    predictions,  \* the script's predictions variable (<<>>: None or unset)
    predicted_class,  \* np.argmax(predictions) (3: unset)
    ip,           \* locals of the latest import_and_predict call
    calls,        \* import_and_predict calls of this run
    msgs,         \* st.error / st.info messages of this run, in order,
                  \* <<kind, text of the exception>>
    shown         \* other outputs of this run, in order, <<kind, value>>

vars == <<variant, model, loads, pc, file, image, layer, predictions,
          predicted_class, ip, calls, msgs, shown>>

Init ==
    /\ variant \in Variants
    /\ model = "unloaded"
    /\ loads = 0
    /\ pc = "load"
    /\ file = NoFile
    /\ image = NoImage
    /\ layer = 0
    /\ predictions = <<>>
    /\ predicted_class = 3
    /\ ip = NoLocals
    /\ calls = 0
    /\ msgs = <<>>
    /\ shown = <<>>

\* except Exception as e: st.error("Error processing the uploaded image")
\* ends the with-block; the script continues after it
OuterExcept(e) ==
    /\ msgs' = Append(msgs, <<"processing_error", e>>)
    /\ pc' = "done"

\* the bug of a load_model without st.cache_resource: every run loads
load_model_uncached ==
    /\ pc = "load"
    /\ pc' = "upload"
    /\ loads' = loads + 1
    /\ \/ model' = "loaded" /\ msgs' = msgs
       \/ /\ model' = "None"
          /\ msgs' = Append(msgs, <<"load_failed", "load_model">>)
    /\ UNCHANGED <<variant, file, image, layer, predictions,
                   predicted_class, ip, calls, shown>>

\* model = load_model(), cached by st.cache_resource: the body runs when the
\* cache has no entry, and its return value, None included, is the entry
load_model ==
    /\ pc = "load"
    /\ pc' = "upload"
    /\ \/ /\ model = "unloaded"
          /\ loads' = loads + 1
          /\ \/ model' = "loaded" /\ msgs' = msgs
             \/ /\ model' = "None"
                /\ msgs' = Append(msgs, <<"load_failed", "load_model">>)
       \/ /\ model # "unloaded"
          /\ UNCHANGED <<model, loads, msgs>>
    /\ UNCHANGED <<variant, file, image, layer, predictions,
                   predicted_class, ip, calls, shown>>

\* file = st.file_uploader(...); if file is None: st.info(...)
Upload ==
    /\ pc = "upload"
    /\ \/ /\ file' = NoFile
          /\ msgs' = Append(msgs, <<"info", "please upload">>)
          /\ pc' = "done"
       \/ /\ file' \in Files \cup {Garbage}
          /\ msgs' = msgs
          /\ pc' = "open"
    /\ UNCHANGED <<variant, loads, model, image, layer, predictions,
                   predicted_class, ip, calls, shown>>

\* image = Image.open(file)
Open ==
    /\ pc = "open"
    /\ IF file = Garbage
       THEN /\ OuterExcept("cannot identify image file")
            /\ UNCHANGED image
       ELSE /\ image' = Image_open(file)
            /\ pc' = "orient"
            /\ msgs' = msgs
    /\ UNCHANGED <<variant, loads, model, file, layer, predictions,
                   predicted_class, ip, calls, shown>>

\* image = correct_orientation(image); bricksense.py and v1 catch every
\* exception, report it and return the image, x lets it reach the script
CorrectOrientation ==
    /\ pc = "orient"
    /\ IF getexif_raises(image)
       THEN IF variant = "x"
            THEN /\ OuterExcept("_getexif")
                 /\ UNCHANGED image
            ELSE /\ msgs' = Append(msgs, <<"orientation_error", "_getexif">>)
                 /\ image' = image
                 /\ pc' = "format"
       ELSE /\ image' = correct_orientation(image)
            /\ pc' = IF variant = "x" THEN "predict" ELSE "format"
            /\ msgs' = msgs
    /\ UNCHANGED <<variant, loads, model, file, layer, predictions,
                   predicted_class, ip, calls, shown>>

\* if image.format not in [...]: raise ValueError (bricksense, v1)
FormatCheck ==
    /\ pc = "format"
    /\ IF format_rejected(image)
       THEN OuterExcept("Unsupported image format")
       ELSE pc' = "show_upload" /\ msgs' = msgs
    /\ UNCHANGED <<variant, loads, model, file, image, layer, predictions,
                   predicted_class, ip, calls,
                   shown>>

\* st.image(image, caption="Uploaded Image") before the inference call
ShowUpload ==
    /\ pc = "show_upload"
    /\ shown' = Append(shown, <<"uploaded_image", image.oid>>)
    /\ pc' = IF variant = "v1" THEN "slider" ELSE "predict"
    /\ UNCHANGED <<variant, loads, model, file, image, layer, predictions,
                   predicted_class, ip, calls,
                   msgs>>

\* the slider's minimum, default and maximum
SliderValues(v) ==
    IF v = "x" THEN {slider_min_x, default_sensitivity, slider_max_x}
    ELSE {slider_min_v1, slider_default_v1, NumLayers - slider_margin_v1}

\* st.slider(...): v1 before its call (max_value reads len(model.layers)),
\* x between its two calls
Slider ==
    /\ pc = "slider"
    /\ IF variant = "v1" /\ model # "loaded"
       THEN /\ OuterExcept("NoneType has no attribute layers")
            /\ UNCHANGED layer
       ELSE /\ layer' \in SliderValues(variant)
            /\ pc' = IF variant = "x" THEN "predict2" ELSE "predict"
            /\ msgs' = msgs
    /\ UNCHANGED <<variant, loads, model, file, image, predictions,
                   predicted_class, ip, calls, shown>>

\* the call of import_and_predict and the tuple assignment of its result
Call(sensitivity, net, next) ==
    LET locals == import_and_predict(variant, image, model, sensitivity, net)
        said == IF locals.raised
                THEN Append(msgs, <<"prediction_error", locals.at>>)
                ELSE msgs
    IN  /\ ip' = locals
        /\ calls' = calls + 1
        /\ IF locals.nret # expected_of(variant)
           THEN \* ValueError: not enough values to unpack
                /\ msgs' = Append(said, <<"processing_error",
                                           "not enough values to unpack">>)
                /\ pc' = "done"
                /\ UNCHANGED predictions
           ELSE /\ msgs' = said
                /\ predictions' = returned_predictions(locals)
                /\ pc' = next

\* predictions, ... = import_and_predict(image, model[, layer_index])
Predict ==
    /\ pc = "predict"
    /\ \E net \in NetsFor(model) :
          Call(IF variant = "v1" THEN layer
               ELSE IF variant = "x" THEN default_sensitivity
               ELSE layer_bricksense,
               net, "report")
    /\ UNCHANGED <<variant, loads, model, file, image, layer, predicted_class, shown>>

\* if predictions is not None: percentages, verdict, explanation
Report ==
    /\ pc = "report"
    /\ IF predictions = <<>>
       THEN pc' = "done" /\ UNCHANGED <<shown, predicted_class>>
       ELSE LET class == np_argmax(predictions)
                verdict == <<"verdict", class>>
                percent == <<"percentages", class>>
            IN  /\ predicted_class' = class
                /\ IF variant = "x"
                   THEN /\ shown' = shown \o <<verdict, percent>>
                        /\ pc' = "slider"
                   ELSE IF variant = "v1"
                   THEN /\ shown' = shown \o
                             <<percent,
                               IF class = 1
                               THEN <<"contours_image", calls>>
                               ELSE <<"not_applicable", 0>>,
                               verdict>>
                        /\ pc' = "done"
                   ELSE /\ shown' = shown \o
                             (IF class = 1
                              THEN <<percent, verdict, <<"heatmap_figure", calls>>>>
                              ELSE <<percent, verdict>>)
                        /\ pc' = "done"
    /\ UNCHANGED <<variant, loads, model, file, image, layer, predictions, ip, calls,
                   msgs>>

\* x: predictions, ... = import_and_predict(image, model, sensitivity=...)
\* on the same image: the same probabilities, the slider's layer
PredictAgain ==
    /\ pc = "predict2"
    /\ \E net \in NetsFor(model) :
          /\ net.pred_vec = predictions
          /\ Call(layer, net, "show")
    /\ UNCHANGED <<variant, loads, model, file, image, layer, predicted_class, shown>>

\* x: the two columns and the comparison widget
ShowResult ==
    /\ pc = "show"
    /\ \E checkbox \in BOOLEAN :
          LET cols == <<<<"uploaded_image", image.oid>>,
                        IF predicted_class = 1
                        THEN <<"contours_image", calls>>
                        ELSE <<"plain_image", image.oid>>>>
          IN  shown' = shown \o cols \o
                  (IF checkbox THEN <<<<"comparison", predicted_class>>>>
                   ELSE <<>>)
    /\ pc' = "done"
    /\ UNCHANGED <<variant, loads, model, file, image, layer, predictions,
                   predicted_class, ip, calls,
                   msgs>>

\* a widget interaction reruns the script in the same process
Rerun ==
    /\ pc = "done"
    /\ pc' = "load"
    /\ file' = NoFile
    /\ image' = NoImage
    /\ layer' = 0
    /\ predictions' = <<>>
    /\ predicted_class' = 3
    /\ ip' = NoLocals
    /\ calls' = 0
    /\ msgs' = <<>>
    /\ shown' = <<>>
    /\ UNCHANGED <<variant, model, loads>>

Next ==
    \/ load_model
    \/ Upload
    \/ Open
    \/ CorrectOrientation
    \/ FormatCheck
    \/ ShowUpload
    \/ Slider
    \/ Predict
    \/ Report
    \/ PredictAgain
    \/ ShowResult
    \/ Rerun

Spec == Init /\ [][Next]_vars

\* =================================================================== claims
\* the latest call computed a heat map
HeatComputed == ip.called /\ ip.at \notin {"none", "model"}

\* C1: when the rectified channel-mean map has maximum exactly 0, the heat
\* map that reaches thresholding is a defined all-zero map (no 0/0), or the
\* call ended with an explicit degenerate-heat-map error.
C1_DegenerateGuarded ==
    (HeatComputed /\ ip.heat_max[1] = 0)
        => \/ ip.at = "degenerate"
           \/ /\ ip.thresholded
              /\ \A c \in Cells : ip.heat_map[c] = <<0, 1>>

\* where ImageOps.pad puts original pixel p of a W x H image
PadPosition(p, box, W, H) ==
    <<box[1] + (p[1] * box[3]) \div W, box[2] + (p[2] * box[4]) \div H>>

\* the corners and the centre of a W x H image
Probes(W, H) ==
    {<<0, 0>>, <<W - 1, 0>>, <<0, H - 1>>, <<W - 1, H - 1>>,
     <<W \div 2, H \div 2>>}

\* C2: in the x variant every original pixel, followed through the pad to
\* 224x224 and back through the contour scaling, returns to within one
\* inference pixel (ceil(W/224), ceil(H/224)) of itself.
C2_RemapInvertsLetterbox ==
    (variant = "x" /\ ip.drew)
        => \A p \in Probes(ip.w, ip.h) :
              LET q == scaled_point(PadPosition(p, ip.box, ip.w, ip.h),
                                    ip.scale_x, ip.scale_y)
              IN  /\ Abs(q[1] - p[1]) <= CeilDiv(ip.w, size)
                  /\ Abs(q[2] - p[2]) <= CeilDiv(ip.h, size)

\* C3: in the x variant the contours are drawn with thickness
\* max(2, floor(max(original_width, original_height) / 200)).
C3_ThicknessScales ==
    (variant = "x" /\ ip.drew)
        => ip.draw_thickness = Max(2, Max(ip.w, ip.h) \div 200)

\* the corner pixels of a W x H frame
Corners(W, H) == {<<0, 0>>, <<W - 1, 0>>, <<0, H - 1>>, <<W - 1, H - 1>>}
\* the corner of the W x H frame that answers corner p of the inference frame
OriginalCorner(p, W, H) ==
    <<IF p[1] = 0 THEN 0 ELSE W - 1, IF p[2] = 0 THEN 0 ELSE H - 1>>

\* a contour through the four corners of the inference frame was scaled onto
\* an original larger than the inference frame
CornerContours ==
    IF variant \in {"v1", "x"} /\ ip.drew /\ ip.w > size /\ ip.h > size
    THEN {c \in ip.contours : Corners(size, size) \subseteq c}
    ELSE {}

\* the scaled corners of contour c are within dx, dy of the original's corners
CornersWithin(c, dx, dy) ==
    /\ scale_contours({c}, ip.scale_x, ip.scale_y) \subseteq ip.drawn
    /\ \A p \in Corners(size, size) :
          LET q == scaled_point(p, ip.scale_x, ip.scale_y)
              o == OriginalCorner(p, ip.w, ip.h)
          IN  Abs(q[1] - o[1]) <= dx /\ Abs(q[2] - o[2]) <= dy

\* C4 as stated: the remapped frame corners land within 1 pixel of the
\* corners of the original frame.
C4_CornersWithinOnePixel ==
    \A c \in CornerContours : CornersWithin(c, 1, 1)

\* C4 amended: the remapped frame corners land within ceil(W/224) - 1 pixels
\* horizontally and ceil(H/224) - 1 pixels vertically of the corners of the
\* original frame (3 and 2 pixels for 800x600).
C4_CornersWithinScale ==
    \A c \in CornerContours :
        CornersWithin(c, CeilDiv(ip.w, size) - 1, CeilDiv(ip.h, size) - 1)

C4_Witness ==
    /\ CornerContours # {}
    /\ <<ip.w, ip.h>> = <<800, 600>>

\* C5: every point handed to drawContours on the original-resolution image is
\* the contour point (x, y), 0 <= x, y <= 223, rescaled to
\* (int(x*W/224), int(y*H/224)), and lies inside the W x H original.
C5_DrawnInOriginalSpace ==
    ip.drew =>
        /\ \A c \in ip.contours : \A p \in c :
              p[1] \in 0 .. size - 1 /\ p[2] \in 0 .. size - 1
        /\ ip.drawn =
              {{<<(p[1] * ip.w) \div size, (p[2] * ip.h) \div size>> : p \in c} :
                  c \in ip.contours}
        /\ \A c \in ip.drawn : \A q \in c :
              q[1] \in 0 .. ip.w - 1 /\ q[2] \in 0 .. ip.h - 1

C5_Witness ==
    /\ ip.drew
    /\ ip.w # size
    /\ \E c \in ip.drawn : \E q \in c : q[1] > size /\ q[2] > size

\* error messages of this run that report a failed request
ErrorReports ==
    {i \in 1 .. Len(msgs) : msgs[i][1] \in {"prediction_error", "processing_error"}}

\* C6: when import_and_predict raised, the finished run shows exactly one
\* error message for that failure.
C6_FailureReportedOnce ==
    (pc = "done" /\ ip.called /\ ip.raised) => Cardinality(ErrorReports) = 1

\* the run is past the format check of bricksense.py / bricksense-v1.py
FormatChecked ==
    /\ variant \in {"bricksense", "v1"}
    /\ file \in Files
    /\ pc \notin {"load", "upload", "open", "orient", "format"}

Rejected ==
    \E i \in 1 .. Len(msgs) :
        msgs[i] = <<"processing_error", "Unsupported image format">>

\* C7: an upload is rejected as an unsupported format if and only if its
\* container is not one of JPEG, PNG, BMP, TIFF, WEBP, whatever its
\* orientation tag.
C7_RejectedIffUnsupported ==
    FormatChecked => (Rejected <=> file.container \notin SupportedFormats)

\* the run is past correct_orientation
Oriented ==
    /\ file \in Files
    /\ pc \notin {"load", "upload", "open", "orient"}

\* the Orientation tag of the upload (0: no metadata or no tag)
TagOf(f) == IF f.getexif = "dict" THEN f.tag ELSE 0

\* C8: correct_orientation returns the opened image itself for tag 1, absent
\* metadata or tag, and any tag outside {3, 6, 8}; a 180-degree rotation of
\* size W x H for tag 3; a 270-degree rotation for tag 6 and a 90-degree
\* rotation for tag 8, each of size H x W.
C8_OrientationTable ==
    Oriented =>
        LET o == Image_open(file)
            tag == TagOf(file)
        IN  /\ tag \notin {3, 6, 8} => image = o
            /\ tag = 3 => image.angle = 180 /\ <<image.w, image.h>> = <<o.w, o.h>>
            /\ tag = 6 => image.angle = 270 /\ <<image.w, image.h>> = <<o.h, o.w>>
            /\ tag = 8 => image.angle = 90 /\ <<image.w, image.h>> = <<o.h, o.w>>

C8_Witness ==
    /\ Oriented
    /\ TagOf(file) = 6
    /\ <<file.w, file.h>> = <<800, 600>>
    /\ <<image.w, image.h>> = <<600, 800>>

\* C9: when the rectified channel-mean map has a strictly positive maximum,
\* every element of the normalised heat map is in [0, 1] and its largest
\* element is 1.
C9_HeatMapInUnitRange ==
    (HeatComputed /\ ip.heat_max[1] > 0) =>
        /\ \A c \in Cells :
              /\ ip.heat_map[c][2] > 0
              /\ 0 <= ip.heat_map[c][1]
              /\ ip.heat_map[c][1] <= ip.heat_map[c][2]
        /\ \E c \in Cells : ip.heat_map[c][1] = ip.heat_map[c][2]

C9_Witness ==
    /\ HeatComputed
    /\ ip.heat_max[1] > 0
    /\ \E c \in Cells : ChannelSum(ip.layer_output[c], Channels) < 0
    /\ \E c \in Cells : ip.heat_map[c] = <<0, ip.heat_max[1]>>

\* the activation is the same at every position
Textureless(layer_output) ==
    \A c1, c2 \in Cells : layer_output[c1] = layer_output[c2]

\* C10: for an activation map without spatial variation the pipeline returns
\* an empty contour set.
C10_NoContoursOnTextureless ==
    (ip.thresholded /\ Textureless(ip.layer_output)) => ip.contours = {}

\* the finished run decoded its upload and passed every check that precedes
\* the inference stage
ReachedInference ==
    /\ pc = "done"
    /\ file \in Files
    /\ IF variant = "x"
       THEN ~getexif_raises(image)
       ELSE ~format_rejected(image)

\* the run shows a verdict or the probabilities
VerdictShown ==
    \E i \in 1 .. Len(shown) : shown[i][1] \in {"verdict", "percentages"}

\* C11: when load_model returned None, a request that reaches inference
\* fails inside the inference call, which reports it, and shows neither
\* verdict nor probabilities.
C11_MissingModelFailsInInference ==
    (model = "None" /\ ReachedInference)
        => /\ ip.called /\ ip.raised /\ ip.at = "model"
           /\ \E i \in 1 .. Len(msgs) : msgs[i] = <<"prediction_error", "model">>
           /\ ~VerdictShown

\* a stage of this run reported a failure
FailureReported ==
    \E i \in 1 .. Len(msgs) :
        msgs[i][1] \in {"orientation_error", "prediction_error", "processing_error"}

\* the run is over, or only the script's test of a None result is left
StagesStopped ==
    \/ pc = "done"
    \/ pc = "report" /\ predictions = <<>>

\* the run shows a contour image or a heat map figure
ExplanationShown ==
    \E i \in 1 .. Len(shown) : shown[i][1] \in {"contours_image", "heatmap_figure"}

\* C12: once a stage has reported a failure, no later stage of the run is
\* executed and neither verdict, probabilities nor contour image are shown.
C12_FailureEndsRequest ==
    FailureReported => StagesStopped /\ ~VerdictShown /\ ~ExplanationShown

\* the value the slider shows before the user touches it
SliderDefault(v) == IF v = "x" THEN default_sensitivity ELSE slider_default_v1

\* the slider was not read yet or still has its initial value
SliderUnmoved == layer = 0 \/ layer = SliderDefault(variant)

\* C13: the layer index passed to import_and_predict is in 1..12, and is 8
\* or 11 while the slider has not been moved.
C13_LayerIndexInRange ==
    ip.called =>
        /\ ip.sensitivity \in 1 .. 12
        /\ SliderUnmoved => ip.sensitivity \in {8, 11}

\* C14: a call of import_and_predict leaves the script's image object as it
\* was: the same object with the same size and format, and none of the
\* buffers the call wrote to in place is the image's.
C14_ImageNotMutated ==
    [][calls' = calls + 1 => (image' = image /\ image.oid \notin ip'.wrote)]_vars

\* the x variant drew contours and then showed the uploaded image again
C14_Witness ==
    /\ variant = "x"
    /\ pc = "done"
    /\ calls = 2
    /\ ip.drew /\ ip.wrote # {} /\ ip.drawn # {}
    /\ \E i \in 1 .. Len(shown) : shown[i] = <<"uploaded_image", image.oid>>

\* C15: over all runs of the script in one process the body of load_model
\* is executed at most once, and once the cache holds a model no step,
\* inference calls included, changes it.
C15_ModelLoadedOnce ==
    [][loads' <= 1 /\ (model # "unloaded" => model' = model)]_vars

\* a run that loaded the model has finished and the script starts again in
\* the same process: load_model is called with the model in the cache
C15_Witness ==
    /\ pc = "load"
    /\ model = "loaded"
    /\ loads = 1

\* C16: in bricksense.py a call with a loaded model reaches the success
\* return for an image of any size.
C16_BlendShapesCompatible ==
    (variant = "bricksense" /\ model = "loaded" /\ ip.called)
        => ~ip.raised /\ ip.at = "return"

\* C17: in the x variant the second call is made with the slider's value
\* after a first call with sensitivity 11, both calls return the same
\* probability vector, the verdict shown is the first call's and the
\* contour image shown is the second call's.
C17_VerdictMatchesContours ==
    [][/\ (variant = "x" /\ pc = "predict2" /\ pc' = "show")
          => /\ calls = 1 /\ ip.sensitivity = default_sensitivity
             /\ calls' = 2 /\ ip'.sensitivity = layer
             /\ predictions' = predictions
             /\ np_argmax(ip'.pred_vec) = predicted_class
       /\ (variant = "x" /\ pc = "show" /\ pc' = "done")
          => /\ \E i \in 1 .. Len(shown') :
                   shown'[i] = <<"verdict", np_argmax(ip.pred_vec)>>
             /\ \A i \in 1 .. Len(shown') :
                   shown'[i][1] = "contours_image" => shown'[i][2] = 2
      ]_vars

\* the slider was moved and the contour image of the second call is shown
\* next to the verdict of the first
C17_Witness ==
    /\ variant = "x"
    /\ pc = "done"
    /\ calls = 2
    /\ layer # default_sensitivity
    /\ predicted_class = 1
    /\ \E i \in 1 .. Len(shown) : shown[i] = <<"verdict", 1>>
    /\ \E i \in 1 .. Len(shown) : shown[i] = <<"contours_image", 2>>

\* the finished run returned from every inference call it made
Successful ==
    /\ pc = "done"
    /\ predictions # <<>>
    /\ ip.called /\ ~ip.raised
    /\ variant = "x" => calls = 2

\* the verdict messages of this run
Verdicts == {i \in 1 .. Len(shown) : shown[i][1] = "verdict"}

\* the run shows an image with contours or heat map: the contour image, the
\* heat map figure, or the comparison widget of a cracked wall
AnnotatedShown ==
    \E i \in 1 .. Len(shown) :
        \/ shown[i][1] \in {"contours_image", "heatmap_figure"}
        \/ shown[i] = <<"comparison", 1>>

\* C18: a successful request shows exactly one verdict, the one of a class
\* with the largest probability, and shows an annotated image if and only if
\* that class is 1.
C18_VerdictAndExplanation ==
    Successful =>
        /\ Cardinality(Verdicts) = 1
        /\ \A i \in Verdicts :
              /\ shown[i][2] \in 0 .. 2
              /\ \A j \in 1 .. 3 : predictions[j] <= predictions[shown[i][2] + 1]
              /\ AnnotatedShown <=> shown[i][2] = 1

\* a cracked wall: the verdict of class 1 and the contour image are shown
C18_Witness ==
    /\ Successful
    /\ variant = "v1"
    /\ predictions[2] > predictions[1] /\ predictions[2] > predictions[3]
    /\ \E i \in Verdicts : shown[i][2] = 1
    /\ AnnotatedShown

====
